---- MODULE Spec2Model ----
(***************************************************************************)
(* Model of demo/hcs-12/rust-wasm/src/lib.rs: the WasmInterface plugin     *)
(* module with its three entry points INFO, POST and GET.                  *)
(*                                                                         *)
(* JSON documents are modelled as TLA+ records (objects), sequences        *)
(* (arrays), strings, booleans and tagged number records; a Rust           *)
(* Result<String, JsValue> is a record tagged "Ok" / "Err", and a panic    *)
(* (arithmetic overflow with overflow checks on) is the outcome "Panic".   *)
(***************************************************************************)
EXTENDS Integers, Sequences, FiniteSets, TLC

VARIABLES overflow_checks, last, prior

vars == <<overflow_checks, last, prior>>

(***************************************************************************)
(* Bounds of the explored inputs.                                          *)
(***************************************************************************)
\* Plain integers -MaxSmall .. MaxSmall are offered as count and amount.
MaxSmall == 1

(***************************************************************************)
(* i32 and the f64 -> i32 cast.                                            *)
(***************************************************************************)
I32Max == 2147483647
I32Min == -I32Max - 1

\* serde_json::Value, the variants the handlers can tell apart.
\* A Number is kept as the f64 that as_f64 yields: its integer part
\* (truncated toward zero) when that fits an i32, whether a fractional part
\* was cut, or on which side of the i32 range it lies.
Null == [t |-> "Null"]
Bool(b) == [t |-> "Bool", b |-> b]
String(s) == [t |-> "String", s |-> s]
Number(i) == [t |-> "Number", r |-> "exact", i |-> i]
NumberFrac(i) == [t |-> "Number", r |-> "frac", i |-> i]
NumberAbove == [t |-> "Number", r |-> "above", i |-> 0]
NumberBelow == [t |-> "Number", r |-> "below", i |-> 0]
Object(m) == [t |-> "Object", m |-> m]

\* Option<T>
None == [some |-> FALSE]
Some(x) == [some |-> TRUE, x |-> x]

\* Result<String, JsValue>, and the panic of an overflowing debug build.
Ok(doc) == [tag |-> "Ok", doc |-> doc]
Err(js) == [tag |-> "Err", js |-> js]
Panic == [tag |-> "Panic"]

\* `x as i32` for an f64 x: truncates toward zero and saturates.
as_i32(f) ==
    CASE f.r = "above" -> I32Max
      [] f.r = "below" -> I32Min
      [] OTHER -> f.i

\* Value::get(key): a member of an object, None for a missing key or a
\* value that is no object.
Value_get(v, key) ==
    IF v.t = "Object" /\ key \in DOMAIN v.m THEN Some(v.m[key]) ELSE None

\* Option::and_then(|v| v.as_f64())
as_f64(o) ==
    IF o.some /\ o.x.t = "Number" THEN Some(o.x) ELSE None

\* Option::and_then(|v| v.as_bool())
as_bool(o) ==
    IF o.some /\ o.x.t = "Bool" THEN Some(o.x.b) ELSE None

\* i32 addition: a sum outside the i32 range panics when the build has
\* overflow checks on and wraps modulo 2^32 otherwise.  The wrapped value is
\* computed without leaving the i32 range.
i32_add(a, b, checks) ==
    IF b > 0 /\ a > I32Max - b
    THEN IF checks THEN None ELSE Some((a + I32Min) + (b + I32Min))
    ELSE IF b < 0 /\ a < I32Min - b
    THEN IF checks THEN None ELSE Some((a + I32Max + 1) + (b + I32Max + 1))
    ELSE Some(a + b)

\* i32 subtraction, likewise.
i32_sub(a, b, checks) ==
    IF b < 0 /\ a > I32Max + b
    THEN IF checks THEN None ELSE Some((a + I32Min) - (b + I32Max + 1))
    ELSE IF b > 0 /\ a < I32Min + b
    THEN IF checks THEN None ELSE Some((a + I32Max + 1) - (b + I32Min))
    ELSE Some(a - b)

(***************************************************************************)
(* POST                                                                    *)
(***************************************************************************)
\* serde_json::from_str(params): a params text is either malformed or the
\* text of one JSON value.
from_str(params) ==
    IF params.malformed
    THEN Err("Failed to parse params: " \o params.why)
    ELSE Ok(params.value)

\* format!("{}", b) for a bool.
bool_str(b) == IF b THEN "true" ELSE "false"

post_increment(params_json, checks) ==
    LET amount == IF as_f64(Value_get(params_json, "amount")).some
                  THEN as_i32(as_f64(Value_get(params_json, "amount")).x)
                  ELSE 1
        count_f == as_f64(Value_get(params_json, "count"))
    IN IF ~count_f.some
       THEN Err("Missing required parameter: count")
       ELSE LET new_count == i32_add(as_i32(count_f.x), amount, checks)
            IN IF ~new_count.some
               THEN Panic
               ELSE Ok([success |-> TRUE,
                        data |-> [count |-> new_count.x],
                        message |-> "Counter incremented by " \o ToString(amount)
                                    \o " to " \o ToString(new_count.x)])

post_decrement(params_json, checks) ==
    LET amount == IF as_f64(Value_get(params_json, "amount")).some
                  THEN as_i32(as_f64(Value_get(params_json, "amount")).x)
                  ELSE 1
        count_f == as_f64(Value_get(params_json, "count"))
    IN IF ~count_f.some
       THEN Err("Missing required parameter: count")
       ELSE LET new_count == i32_sub(as_i32(count_f.x), amount, checks)
            IN IF ~new_count.some
               THEN Panic
               ELSE Ok([success |-> TRUE,
                        data |-> [count |-> new_count.x],
                        message |-> "Counter decremented by " \o ToString(amount)
                                    \o " to " \o ToString(new_count.x)])

\* A reset that reads the counter back from the params.
post_reset_echo(params_json) ==
    Ok([success |-> TRUE,
        data |-> [count |-> IF as_f64(Value_get(params_json, "count")).some
                            THEN as_i32(as_f64(Value_get(params_json, "count")).x)
                            ELSE 0],
        message |-> "Counter reset to 0"])

post_reset(params_json) ==
    Ok([success |-> TRUE,
        data |-> [count |-> 0],
        message |-> "Counter reset to 0"])

\* A toggle that returns the flag as it came.
post_toggleCounter_same(params_json) ==
    LET show_counter == as_bool(Value_get(params_json, "showCounter"))
    IN IF ~show_counter.some
       THEN Err("Missing required parameter: showCounter")
       ELSE Ok([success |-> TRUE,
                data |-> [showCounter |-> show_counter.x],
                message |-> "Counter visibility toggled to "
                            \o bool_str(show_counter.x)])

post_toggleCounter(params_json) ==
    LET show_counter == as_bool(Value_get(params_json, "showCounter"))
    IN IF ~show_counter.some
       THEN Err("Missing required parameter: showCounter")
       ELSE LET new_state == ~show_counter.x
            IN Ok([success |-> TRUE,
                   data |-> [showCounter |-> new_state],
                   message |-> "Counter visibility toggled to " \o bool_str(new_state)])

post_toggleStats(params_json) ==
    LET show_stats == as_bool(Value_get(params_json, "showStats"))
    IN IF ~show_stats.some
       THEN Err("Missing required parameter: showStats")
       ELSE LET new_state == ~show_stats.x
            IN Ok([success |-> TRUE,
                   data |-> [showStats |-> new_state],
                   message |-> "Stats visibility toggled to " \o bool_str(new_state)])

\* A default arm that fails the call instead of returning a result.
post_default_err(action) ==
    Err("Unknown action: " \o action)

post_default(action) ==
    Ok([success |-> FALSE,
        error |-> "Unknown action: " \o action])

\* A match that lacks the arm of reset.
post_match_no_reset(action, params_json, checks) ==
    CASE action = "increment" -> post_increment(params_json, checks)
      [] action = "decrement" -> post_decrement(params_json, checks)
      [] action = "toggleCounter" -> post_toggleCounter(params_json)
      [] action = "toggleStats" -> post_toggleStats(params_json)
      [] OTHER -> post_default(action)

\* The match of POST on the action name.
post_match(action, params_json, checks) ==
    CASE action = "increment" -> post_increment(params_json, checks)
      [] action = "decrement" -> post_decrement(params_json, checks)
      [] action = "reset" -> post_reset(params_json)
      [] action = "toggleCounter" -> post_toggleCounter(params_json)
      [] action = "toggleStats" -> post_toggleStats(params_json)
      [] OTHER -> post_default(action)

\* A POST that serves only the mainnet.
post_mainnet_only(action, params, network, hash_link_memo, checks) ==
    LET params_json == from_str(params)
    IN IF params_json.tag = "Err"
       THEN params_json
       ELSE IF network # "mainnet"
       THEN Err("Unsupported network: " \o network)
       ELSE post_match(action, params_json.doc, checks)

\* WasmInterface::post: decode the params, then dispatch.
post(action, params, network, hash_link_memo, checks) ==
    LET params_json == from_str(params)
    IN IF params_json.tag = "Err"
       THEN params_json
       ELSE post_match(action, params_json.doc, checks)

(***************************************************************************)
(* INFO                                                                    *)
(***************************************************************************)
ParameterDefinition(name, param_type, description, required, validation) ==
    [name |-> name, param_type |-> param_type, description |-> description,
     required |-> required, validation |-> validation]

ValidationRule(min, max) == [min |-> min, max |-> max]

ActionDefinition(name, description, inputs, outputs) ==
    [name |-> name, description |-> description, inputs |-> inputs,
     outputs |-> outputs, required_capabilities |-> <<>>]

\* The actions vector of the ModuleInfo built by INFO.
info_actions ==
    << ActionDefinition("increment", "Increment the counter",
         << ParameterDefinition("amount", "number", "Amount to increment by",
                                FALSE, ValidationRule(1, 100)),
            ParameterDefinition("count", "number", "Current counter value",
                                TRUE, Null) >>,
         << ParameterDefinition("count", "number", "Updated counter value",
                                TRUE, Null) >>),
       ActionDefinition("decrement", "Decrement the counter",
         << ParameterDefinition("amount", "number", "Amount to decrement by",
                                FALSE, ValidationRule(1, 100)),
            ParameterDefinition("count", "number", "Current counter value",
                                TRUE, Null) >>,
         << ParameterDefinition("count", "number", "Updated counter value",
                                TRUE, Null) >>),
       ActionDefinition("reset", "Reset the counter to zero",
         << >>,
         << ParameterDefinition("count", "number", "Reset counter value (0)",
                                TRUE, Null) >>),
       ActionDefinition("toggleCounter", "Toggle visibility of counter block",
         << ParameterDefinition("showCounter", "boolean",
                                "Current visibility state of counter", TRUE, Null) >>,
         << ParameterDefinition("showCounter", "boolean",
                                "Updated visibility state", TRUE, Null) >>),
       ActionDefinition("toggleStats", "Toggle visibility of stats block",
         << ParameterDefinition("showStats", "boolean",
                                "Current visibility state of stats", TRUE, Null) >>,
         << ParameterDefinition("showStats", "boolean",
                                "Updated visibility state", TRUE, Null) >>) >>

\* WasmInterface::info: the serialized ModuleInfo.
info ==
    Ok([name |-> "Demo Actions Module",
        version |-> "1.0.0",
        hashlinks_version |-> "0.1.0",
        creator |-> "HashGraph Online",
        purpose |-> "Demo actions for counter and container blocks",
        actions |-> info_actions,
        capabilities |-> << [type |-> "network",
                             value |-> [networks |-> <<"mainnet", "testnet">>,
                                        operations |-> <<"query">>]] >>,
        plugins |-> << >>])

(***************************************************************************)
(* GET                                                                     *)
(***************************************************************************)
get_amount_field(label) ==
    [type |-> "number", name |-> "amount", label |-> label, required |-> FALSE,
     default |-> 1, min |-> 1, max |-> 100]

\* WasmInterface::get: the form of an action; params and network are not
\* read.
get(action, params, network) ==
    CASE action = "increment" ->
           Ok([title |-> "Increment Counter",
               description |-> "Increase the counter value",
               label |-> "Increment",
               parameters |-> << get_amount_field("Amount to increment") >>])
      [] action = "decrement" ->
           Ok([title |-> "Decrement Counter",
               description |-> "Decrease the counter value",
               label |-> "Decrement",
               parameters |-> << get_amount_field("Amount to decrement") >>])
      [] action = "reset" ->
           Ok([title |-> "Reset Counter",
               description |-> "Reset the counter to zero",
               label |-> "Reset",
               parameters |-> << >>])
      [] action = "toggleCounter" ->
           Ok([title |-> "Toggle Counter",
               description |-> "Toggle visibility of the counter block",
               label |-> "Toggle Counter",
               parameters |-> << >>])
      [] action = "toggleStats" ->
           Ok([title |-> "Toggle Stats",
               description |-> "Toggle visibility of the stats block",
               label |-> "Toggle Stats",
               parameters |-> << >>])
      [] OTHER ->
           Ok([error |-> "Unknown action: " \o action])

(***************************************************************************)
(* The inputs the host is let to pass.                                     *)
(***************************************************************************)
\* Action names: the five of the module, and two it does not know (one
\* differing from a known name only in case).
ActionNames ==
    {"increment", "decrement", "reset", "toggleCounter", "toggleStats",
     "unknownAction", "Increment"}

Networks == {"mainnet", "testnet"}

Memos == {"", "hcs-12 demo"}

SmallNumbers == {Number(i) : i \in -MaxSmall .. MaxSmall}

\* What a params object may carry as "amount": integers in and out of the
\* declared [1,100] range.
AmountValues == SmallNumbers \cup {Number(5), Number(101)}

\* What a params object may carry as "count": zero, the ends of the i32
\* range, and an integer beyond it.
CountValues == {Number(0), Number(I32Max), Number(I32Min), NumberAbove}

Missing == [t |-> "Missing"]

\* The JSON object with the members of `pairs` (a function from keys to
\* values) that are not Missing.
ObjectOf(pairs) ==
    Object([k \in {x \in DOMAIN pairs : pairs[x] # Missing} |-> pairs[k]])

NumericObjects ==
    {ObjectOf([amount |-> a, count |-> c]) :
        a \in AmountValues \cup {Missing}, c \in CountValues \cup {Missing}}

FlagObjects ==
    {ObjectOf([showCounter |-> a, showStats |-> b]) :
        a \in {Bool(TRUE), Bool(FALSE), Missing},
        b \in {Bool(TRUE), Bool(FALSE), Missing}}

WellFormed(v) == [malformed |-> FALSE, value |-> v]

Malformed == [malformed |-> TRUE, why |-> "expected value at line 1 column 1"]

\* The params texts offered to POST: JSON objects, a JSON value that is no
\* object, and a text that is no JSON.
ParamsDocs ==
    {WellFormed(v) : v \in NumericObjects \cup FlagObjects \cup {Null}}
    \cup {Malformed}

\* The params texts offered to GET.
GetDocs == {WellFormed(Object(<<>>)), Malformed}

(***************************************************************************)
(* The state machine: the host calls INFO, POST and GET in any order.      *)
(* `last` is the most recent call with its outcome; `prior` is the outcome *)
(* of the call before it when both are POSTs of the same action and        *)
(* params.  overflow_checks is the build profile.                          *)
(***************************************************************************)
NoCall == [op |-> "none"]

NoPrior == [same |-> FALSE]

Init ==
    /\ overflow_checks \in BOOLEAN
    /\ last = NoCall
    /\ prior = NoPrior

Info ==
    /\ last' = [op |-> "INFO", result |-> info]
    /\ prior' = NoPrior
    /\ UNCHANGED overflow_checks

Post ==
    \E action \in ActionNames, params \in ParamsDocs,
       network \in Networks, hash_link_memo \in Memos :
        /\ last' = [op |-> "POST", action |-> action, params |-> params,
                    network |-> network, hash_link_memo |-> hash_link_memo,
                    result |-> post(action, params, network, hash_link_memo,
                                    overflow_checks)]
        /\ prior' = IF last.op = "POST" /\ last.action = action
                       /\ last.params = params
                    THEN [same |-> TRUE, result |-> last.result,
                          varied |-> last.network # network
                                     \/ last.hash_link_memo # hash_link_memo]
                    ELSE NoPrior
        /\ UNCHANGED overflow_checks

Get ==
    \E action \in ActionNames, params \in GetDocs, network \in Networks :
        /\ last' = [op |-> "GET", action |-> action,
                    result |-> get(action, params, network)]
        /\ prior' = NoPrior
        /\ UNCHANGED overflow_checks

Next == Info \/ Post \/ Get

Spec == Init /\ [][Next]_vars

(***************************************************************************)
(* Vocabulary of the properties.                                           *)
(***************************************************************************)
\* The closed set of action names the specification gives.
KnownActions == {"increment", "decrement", "reset", "toggleCounter", "toggleStats"}

IsPost(action) == last.op = "POST" /\ last.action = action

\* The last call was a POST whose params text is a JSON object.
PostOfObject ==
    /\ last.op = "POST"
    /\ ~last.params.malformed
    /\ last.params.value.t = "Object"

HasKey(key) == key \in DOMAIN last.params.value.m

\* The member `key` of the params object is an integer that an i32 holds.
IsInteger(key) ==
    /\ HasKey(key)
    /\ last.params.value.m[key].t = "Number"
    /\ last.params.value.m[key].r = "exact"

IntegerAt(key) == last.params.value.m[key].i

\* The call returned a result document with success = true.
Succeeded ==
    /\ last.result.tag = "Ok"
    /\ "success" \in DOMAIN last.result.doc
    /\ last.result.doc.success = TRUE

\* The call returned a result document with success = false and this error.
FailedWith(error) ==
    /\ last.result.tag = "Ok"
    /\ DOMAIN last.result.doc = {"success", "error"}
    /\ last.result.doc.success = FALSE
    /\ last.result.doc.error = error

\* r = c + a over the integers, for i32 values r, c and a: a sum outside the
\* i32 range is no i32.
IsSum(r, c, a) ==
    /\ ~(a > 0 /\ c > I32Max - a)
    /\ ~(a < 0 /\ c < I32Min - a)
    /\ r = c + a

\* r = c - a over the integers, for i32 values r, c and a.
IsDifference(r, c, a) ==
    /\ ~(a < 0 /\ c > I32Max + a)
    /\ ~(a > 0 /\ c < I32Min + a)
    /\ r = c - a

\* The result carries data.count = count + amount (increment) or
\* count - amount (decrement).
CountMovedBy(amount) ==
    /\ Succeeded
    /\ DOMAIN last.result.doc.data = {"count"}
    /\ IF last.action = "increment"
       THEN IsSum(last.result.doc.data.count, IntegerAt("count"), amount)
       ELSE IsDifference(last.result.doc.data.count, IntegerAt("count"), amount)

\* The action names of the descriptor INFO returns.
InfoNames == {info.doc.actions[i].name : i \in DOMAIN info.doc.actions}

\* The toggle negated the flag it was given, under the same name, and the
\* same action applied to the returned flag gives the flag back.
ToggleNegates(flag) ==
    /\ Succeeded
    /\ DOMAIN last.result.doc.data = {flag}
    /\ last.result.doc.data[flag] = ~last.params.value.m[flag].b
    /\ LET again == post(last.action,
                         WellFormed(Object([k \in {flag} |->
                                              Bool(last.result.doc.data[flag])])),
                         last.network, last.hash_link_memo, overflow_checks)
       IN /\ again.tag = "Ok"
          /\ again.doc.success = TRUE
          /\ again.doc.data[flag] = last.params.value.m[flag].b

(***************************************************************************)
(* The properties.                                                         *)
(***************************************************************************)
\* C1: for all integers c and a with a >= 1, increment of {count: c,
\* amount: a} returns success = true with data.count = c + a, and decrement
\* returns success = true with data.count = c - a.
C1_IncrementDecrement ==
    (/\ PostOfObject
     /\ last.action \in {"increment", "decrement"}
     /\ IsInteger("count")
     /\ IsInteger("amount")
     /\ IntegerAt("amount") >= 1)
    => CountMovedBy(IntegerAt("amount"))

\* C2: a required parameter absent from a well-formed params document makes
\* POST return a result document with success = false and the error
\* "Missing required parameter: <name>", not fail the call.
C2_MissingParameterResult ==
    /\ (PostOfObject /\ last.action \in {"increment", "decrement"}
        /\ ~HasKey("count"))
       => FailedWith("Missing required parameter: count")
    /\ (PostOfObject /\ last.action = "toggleCounter" /\ ~HasKey("showCounter"))
       => FailedWith("Missing required parameter: showCounter")
    /\ (PostOfObject /\ last.action = "toggleStats" /\ ~HasKey("showStats"))
       => FailedWith("Missing required parameter: showStats")

\* C3: for an action name outside the closed set, POST with a well-formed
\* params document returns success = false with the error
\* "Unknown action: <name>", and GET returns a document that carries an
\* error field and nothing else; neither call fails.
C3_UnknownAction ==
    /\ (last.op = "POST" /\ last.action \notin KnownActions
        /\ ~last.params.malformed)
       => FailedWith("Unknown action: " \o last.action)
    /\ (last.op = "GET" /\ last.action \notin KnownActions)
       => /\ last.result.tag = "Ok"
          /\ DOMAIN last.result.doc = {"error"}

C3_Witness ==
    /\ last.op = "POST"
    /\ last.action = "unknownAction"
    /\ last.params = WellFormed(Object(<<>>))
    /\ last.result.tag = "Ok"
    /\ last.result.doc.success = FALSE

\* C4: a name is in the action list of INFO exactly when POST dispatches it
\* to a handler and exactly when GET returns a form for it, and the list of
\* INFO names no action twice.
C4_DescriptorMatchesDispatch ==
    /\ (last.op = "INFO")
       => /\ last.result.tag = "Ok"
          /\ Cardinality({last.result.doc.actions[i].name :
                            i \in DOMAIN last.result.doc.actions})
               = Len(last.result.doc.actions)
    /\ (last.op = "POST" /\ ~last.params.malformed)
       => (last.action \in InfoNames
            <=> ~FailedWith("Unknown action: " \o last.action))
    /\ (last.op = "GET")
       => (last.action \in InfoNames
            <=> (last.result.tag = "Ok"
                 /\ DOMAIN last.result.doc
                      = {"title", "description", "label", "parameters"}))

C4_Witness ==
    /\ IsPost("reset")
    /\ last.action \in InfoNames
    /\ Succeeded

\* C5: toggleCounter of {showCounter: b} returns success = true with
\* data.showCounter = ~b, toggleStats of {showStats: b} returns success = true
\* with data.showStats = ~b, and the same action applied to the returned flag
\* returns b.
C5_ToggleNegates ==
    /\ (PostOfObject /\ last.action = "toggleCounter" /\ HasKey("showCounter")
        /\ last.params.value.m["showCounter"].t = "Bool")
       => ToggleNegates("showCounter")
    /\ (PostOfObject /\ last.action = "toggleStats" /\ HasKey("showStats")
        /\ last.params.value.m["showStats"].t = "Bool")
       => ToggleNegates("showStats")

C5_Witness ==
    /\ IsPost("toggleCounter")
    /\ last.params = WellFormed(Object([showCounter |-> Bool(TRUE)]))
    /\ Succeeded
    /\ last.result.doc.data.showCounter = FALSE

\* C6, as stated: after any earlier calls, POST("reset") always returns
\* success = true with data.count = 0, whatever the params document.
C6_ResetAlways ==
    IsPost("reset")
    => /\ Succeeded
       /\ last.result.doc.data = [count |-> 0]

\* C6, amended: after any earlier calls, POST("reset") with a params
\* document that decodes returns success = true with data.count = 0 whatever
\* the document holds, and with a malformed document the call fails.
C6_ResetOfDecodedParams ==
    /\ (IsPost("reset") /\ ~last.params.malformed)
       => /\ Succeeded
          /\ last.result.doc.data = [count |-> 0]
    /\ (IsPost("reset") /\ last.params.malformed)
       => last.result.tag = "Err"

C6_Witness ==
    /\ IsPost("reset")
    /\ PostOfObject
    /\ IsInteger("count")
    /\ IntegerAt("count") = I32Max
    /\ prior.same
    /\ Succeeded
    /\ last.result.doc.data.count = 0

\* C7: with amount omitted, increment of {count: c} returns success = true
\* with data.count = c + 1 and decrement returns data.count = c - 1.
C7_DefaultAmount ==
    (/\ PostOfObject
     /\ last.action \in {"increment", "decrement"}
     /\ IsInteger("count")
     /\ ~HasKey("amount"))
    => CountMovedBy(1)

\* C8: POST fails hard for a malformed params document, whatever the action
\* name, and for nothing else.
C8_HardFailureIffMalformed ==
    last.op = "POST"
    => (last.result.tag # "Ok" <=> last.params.malformed)

\* C9: increment and decrement with count present and an integer amount
\* outside [1,100] are not rejected: they return success = true with
\* data.count = count + amount, respectively count - amount.
C9_RangeNotEnforced ==
    (/\ PostOfObject
     /\ last.action \in {"increment", "decrement"}
     /\ IsInteger("count")
     /\ IsInteger("amount")
     /\ (IntegerAt("amount") < 1 \/ IntegerAt("amount") > 100))
    => CountMovedBy(IntegerAt("amount"))

\* C10: two POST calls with the same action and params produce the same
\* outcome, whatever their network and memo arguments and whatever was
\* called before.
C10_SameRequestSameOutcome ==
    prior.same => last.result = prior.result

C10_Witness ==
    /\ prior.same
    /\ prior.varied
    /\ IsPost("increment")
    /\ Succeeded

====
